---- MODULE Spec2Model ----
(***************************************************************************)
(* The SMIT executive dashboard (app.py): a Streamlit script that is run   *)
(* from top to bottom on start and again after every widget interaction.   *)
(* One run loads the data file, derives the four per-student columns,      *)
(* applies the three sidebar filters and computes the KPI figures, the     *)
(* subject averages, the two grouped tables and the at-risk report.        *)
(*                                                                         *)
(* A DataFrame is a record [columns, index, data]: the column labels in    *)
(* order, the row labels in order and the rows, each a function from       *)
(* column label to cell.  float64 values are modelled bit for bit          *)
(* (53-bit significand, round to nearest even) for the non-negative        *)
(* numbers the script computes.                                            *)
(***************************************************************************)
EXTENDS Integers, Sequences, FiniteSets, TLC

(* ---------------------------- bounds ----------------------------------- *)
\* longest data file explored (rows)
MaxLen == 3
\* one-row data files take their scores from FAIL_THRESHOLD +/- ScoreSpan
ScoreSpan == 1

(* ------------------------ float64 arithmetic --------------------------- *)
\* A float is [kind, exp, man]: kind "num" is (1 + man/2^52) * 2^exp with the
\* 52 fraction bits held as four 13-bit limbs; "zero" is 0.0 and "nan" is NaN.
LimbBits == 13
Limb == 2 ^ LimbBits
NumLimbs == 4

NaN == [kind |-> "nan", exp |-> 0, man |-> <<>>]
FZero == [kind |-> "zero", exp |-> 0, man |-> <<>>]

RoundNearestEven(man, exp, guard, sticky) ==
    LET up == guard = 1 /\ (sticky \/ man[4] % 2 = 1)
        v4 == man[4] + 1
        v3 == man[3] + v4 \div Limb
        v2 == man[2] + v3 \div Limb
        v1 == man[1] + v2 \div Limb
    IN  IF ~up THEN [kind |-> "num", exp |-> exp, man |-> man]
        ELSE IF v1 \div Limb = 1
             THEN [kind |-> "num", exp |-> exp + 1, man |-> <<0, 0, 0, 0>>]
             ELSE [kind |-> "num", exp |-> exp,
                   man |-> <<v1 % Limb, v2 % Limb, v3 % Limb, v4 % Limb>>]

RECURSIVE Log2Floor(_, _)
\* the e >= 0 with t * 2^e <= p < t * 2^(e+1), for p >= t
Log2Floor(p, t) == IF p < 2 * t THEN 0 ELSE 1 + Log2Floor(p, 2 * t)

FDivInt(p, t) ==
    IF t = 0 THEN NaN
    ELSE IF p = 0 THEN FZero
    ELSE LET up == IF p >= t THEN Log2Floor(p, t) ELSE 0
             down == IF p >= t THEN 0
                     ELSE IF Log2Floor(t, p) = 0 \/ p * 2 ^ Log2Floor(t, p) < t
                          THEN Log2Floor(t, p) + 1 ELSE Log2Floor(t, p)
             num == p * 2 ^ down
             den == t * 2 ^ up
             r0 == num - den
             l1 == (r0 * Limb) \div den
             r1 == (r0 * Limb) % den
             l2 == (r1 * Limb) \div den
             r2 == (r1 * Limb) % den
             l3 == (r2 * Limb) \div den
             r3 == (r2 * Limb) % den
             l4 == (r3 * Limb) \div den
             r4 == (r3 * Limb) % den
         IN  RoundNearestEven(<<l1, l2, l3, l4>>, up - down,
                              (2 * r4) \div den, (2 * r4) % den # 0)

FromInt(n) == FDivInt(n, 1)

FMulInt(x, k) ==
    IF x.kind # "num" THEN x
    ELSE IF k = 0 THEN FZero
    ELSE LET v4 == x.man[4] * k
             v3 == x.man[3] * k + v4 \div Limb
             v2 == x.man[2] * k + v3 \div Limb
             v1 == x.man[1] * k + v2 \div Limb
             top == k + v1 \div Limb
             s == Log2Floor(top, 1)
             lo == 2 ^ s
             hi == 2 ^ (LimbBits - s)
             p == <<top - lo, v1 % Limb, v2 % Limb, v3 % Limb, v4 % Limb>>
             man == [i \in 1..NumLimbs |-> (p[i] % lo) * hi + p[i + 1] \div lo]
             dropped == p[5] % lo
         IN  IF s = 0 THEN x
             ELSE RoundNearestEven(man, x.exp + s, dropped \div (lo \div 2),
                                   dropped % (lo \div 2) # 0)

\* limbs shifted right by d bits (0 <= d); len stays, low bits fall off
ShiftRight(limbs, d) ==
    LET n == Len(limbs)
        q == d \div LimbBits
        s == d % LimbBits
        moved == [i \in 1..n |-> IF i - q >= 1 THEN limbs[i - q] ELSE 0]
    IN  [i \in 1..n |-> (IF i = 1 THEN 0 ELSE (moved[i - 1] % 2 ^ s) * 2 ^ (LimbBits - s))
                        + moved[i] \div 2 ^ s]

RECURSIVE AddLimbs(_, _, _)
\* a + b + carry, the first limb absorbs the carry out
AddLimbs(a, b, carry) ==
    IF Len(a) = 1 THEN <<a[1] + b[1] + carry>>
    ELSE LET n == Len(a)
             v == a[n] + b[n] + carry
         IN  Append(AddLimbs(SubSeq(a, 1, n - 1), SubSeq(b, 1, n - 1), v \div Limb), v % Limb)

FAdd(x, y) ==
    IF x.kind = "nan" \/ y.kind = "nan" THEN NaN
    ELSE IF x.kind = "zero" THEN y
    ELSE IF y.kind = "zero" THEN x
    ELSE LET hi == IF x.exp >= y.exp THEN x ELSE y
             lo == IF x.exp >= y.exp THEN y ELSE x
             d == hi.exp - lo.exp
             pad == <<0, 0, 0, 0, 0>>
             sum == AddLimbs(<<1>> \o hi.man \o pad, ShiftRight(<<1>> \o lo.man \o pad, d), 0)
             carry == IF sum[1] >= 2 THEN 1 ELSE 0
             w == ShiftRight(sum, carry)
         IN  IF d > 4 * LimbBits + 2 THEN hi
             ELSE RoundNearestEven(SubSeq(w, 2, 5), hi.exp + carry, w[6] \div (Limb \div 2),
                                   w[6] % (Limb \div 2) # 0 \/ \E i \in 7..10 : w[i] # 0)

RECURSIVE LimbsLeq(_, _)
LimbsLeq(a, b) ==
    IF a = <<>> THEN TRUE
    ELSE IF a[1] # b[1] THEN a[1] < b[1]
    ELSE LimbsLeq(Tail(a), Tail(b))

FLeq(x, y) ==
    IF x.kind = "nan" \/ y.kind = "nan" THEN FALSE
    ELSE IF x.kind = "zero" THEN TRUE
    ELSE IF y.kind = "zero" THEN FALSE
    ELSE IF x.exp # y.exp THEN x.exp < y.exp
    ELSE LimbsLeq(x.man, y.man)

\* round half to even to an integer, for 0 <= x < 2^(LimbBits+1)
Rint(x) ==
    IF x.kind # "num" \/ x.exp < -1 THEN 0
    ELSE LET w == ShiftRight(<<0, 1>> \o x.man \o <<0, 0>>, LimbBits - x.exp)
             ip == w[2] * Limb + w[3]
             guard == w[4] \div (Limb \div 2)
             sticky == w[4] % (Limb \div 2) # 0 \/ \E i \in 5..8 : w[i] # 0
         IN  IF guard = 1 /\ (sticky \/ ip % 2 = 1) THEN ip + 1 ELSE ip

Round2(x) == IF x.kind # "num" THEN x ELSE FDivInt(Rint(FMulInt(x, 100)), 100)

(* --------------------------- DataFrames -------------------------------- *)
RawColumns ==
    <<"gender", "parental level of education", "lunch", "test preparation course",
      "math score", "reading score", "writing score">>

ScoreColumns == <<"math score", "reading score", "writing score">>

DisplayColumns ==
    <<"gender", "parental level of education", "lunch", "test preparation course",
      "math score", "reading score", "writing score", "min score">>

Range(s) == {s[i] : i \in 1..Len(s)}

\* the sequence with the elements of f, a function on 1..n
List(f) == f \o <<>>

\* pd.read_csv: header columns, RangeIndex 0..n-1, one row per line
read_csv(file) ==
    [columns |-> RawColumns, index |-> List([i \in 1..Len(file) |-> i - 1]), data |-> file]

\* df[name] = values: a new column goes last, an existing one is overwritten
SetColumn(frame, name, values) ==
    [columns |-> IF name \in Range(frame.columns) THEN frame.columns
                 ELSE Append(frame.columns, name),
     index |-> frame.index,
     data |-> List([i \in 1..Len(frame.data) |-> (name :> values[i]) @@ frame.data[i]])]

\* frame[mask]: the rows whose mask is TRUE, labels and order kept
BooleanIndex(frame, mask) ==
    LET keep == SelectSeq(List([i \in 1..Len(frame.data) |-> i]), LAMBDA i : mask[i])
    IN  [columns |-> frame.columns,
         index |-> List([k \in 1..Len(keep) |-> frame.index[keep[k]]]),
         data |-> List([k \in 1..Len(keep) |-> frame.data[keep[k]]])]

\* frame[cols]: projection on the listed columns
GetColumns(frame, cols) ==
    [columns |-> cols, index |-> frame.index,
     data |-> List([i \in 1..Len(frame.data) |-> [c \in Range(cols) |-> frame.data[i][c]]])]

\* Series.unique(): the distinct values of a column
unique(frame, col) == {frame.data[i][col] : i \in 1..Len(frame.data)}

\* Series.isin(values)
isin(frame, col, values) == List([i \in 1..Len(frame.data) |-> frame.data[i][col] \in values])

Min2(a, b) == IF a <= b THEN a ELSE b

\* SumAxis1 with the writing score left out
SumAxis1_two(row) == row["math score"] + row["reading score"]

\* DataFrame.sum(axis=1) and DataFrame.min(axis=1) over the three score columns
SumAxis1(row) == row["math score"] + row["reading score"] + row["writing score"]

MinAxis1(row) == Min2(row["math score"], Min2(row["reading score"], row["writing score"]))

RECURSIVE ColumnSum(_, _, _)
ColumnSum(frame, col, n) ==
    IF n = 0 THEN 0 ELSE ColumnSum(frame, col, n - 1) + frame.data[n][col]

\* Series.mean(): sum / count as float64, NaN for an empty column
mean(frame, col) == FDivInt(ColumnSum(frame, col, Len(frame.data)), Len(frame.data))

\* value_counts().get(key, 0)
value_count(frame, col, key) ==
    Cardinality({i \in 1..Len(frame.data) : frame.data[i][col] = key})

\* groupby(key)[score columns].mean(): one row per distinct key value
groupby_mean(frame, key) ==
    [g \in unique(frame, key) |->
        [c \in Range(ScoreColumns) |-> mean(BooleanIndex(frame, isin(frame, key, {g})), c)]]

\* DataFrame.round(2) of a grouped table
round2(table) ==
    [g \in DOMAIN table |-> [c \in Range(ScoreColumns) |-> Round2(table[g][c])]]

Orderings(n) == {p \in [1..n -> 1..n] : \A i, j \in 1..n : i # j => p[i] # p[j]}

\* sort_values that returns the frame in the order it came
sort_values_unsorted(frame, col) == {frame}

\* sort_values(by=col) with the default kind='quicksort', which is not stable:
\* every ordering that is ascending in col is a possible result
sort_values(frame, col) ==
    LET n == Len(frame.data)
    IN  {[columns |-> frame.columns,
          index |-> List([k \in 1..n |-> frame.index[p[k]]]),
          data |-> List([k \in 1..n |-> frame.data[p[k]]])] :
            p \in {q \in Orderings(n) :
                     \A k \in 1..(n - 1) : frame.data[q[k]][col] <= frame.data[q[k + 1]][col]}}

\* to_csv(index=False): a header line with every column of the frame, then one
\* line per row with the cells in column order; no index column
to_csv(frame) ==
    [header |-> frame.columns,
     lines |-> List([i \in 1..Len(frame.data) |->
                  [j \in 1..Len(frame.columns) |-> frame.data[i][frame.columns[j]]]])]

(* ----------------------------- the script ------------------------------ *)
FAIL_THRESHOLD == 40

\* pass_fail_lambda with the threshold itself passing
pass_fail_lambda_strict(x) == IF x < FAIL_THRESHOLD THEN "Fail" ELSE "Pass"

pass_fail_lambda(x) == IF x <= FAIL_THRESHOLD THEN "Fail" ELSE "Pass"

\* Data Prep: the four derived columns
DataPrep(raw) ==
    LET n == Len(raw.data)
        d1 == SetColumn(raw, "total score", List([i \in 1..n |-> SumAxis1(raw.data[i])]))
        d2 == SetColumn(d1, "average score",
                        List([i \in 1..n |-> FDivInt(d1.data[i]["total score"], 3)]))
        d3 == SetColumn(d2, "min score", List([i \in 1..n |-> MinAxis1(d2.data[i])]))
    IN  SetColumn(d3, "pass_fail", List([i \in 1..n |-> pass_fail_lambda(d3.data[i]["min score"])]))

\* FilterRows without the Test Prep Course condition
FilterRows_noprep(frame, genders, edus, preps) ==
    LET g == isin(frame, "gender", genders)
        e == isin(frame, "parental level of education", edus)
    IN  BooleanIndex(frame, List([i \in 1..Len(frame.data) |-> g[i] /\ e[i]]))

\* FilterRows with an empty multiselect read as "no filter"
FilterRows_emptyall(frame, genders, edus, preps) ==
    LET g == isin(frame, "gender", genders)
        e == isin(frame, "parental level of education", edus)
        p == isin(frame, "test preparation course", preps)
    IN  BooleanIndex(frame, List([i \in 1..Len(frame.data) |->
                                    /\ (genders = {} \/ g[i])
                                    /\ (edus = {} \/ e[i])
                                    /\ (preps = {} \/ p[i])]))

\* FilterRows followed by drop_duplicates()
FilterRows_dedup(frame, genders, edus, preps) ==
    LET g == isin(frame, "gender", genders)
        e == isin(frame, "parental level of education", edus)
        p == isin(frame, "test preparation course", preps)
    IN  BooleanIndex(frame, List([i \in 1..Len(frame.data) |->
                                    /\ g[i] /\ e[i] /\ p[i]
                                    /\ \A j \in 1..(i - 1) : frame.data[j] # frame.data[i]]))

\* the sidebar selection applied to df
FilterRows(frame, genders, edus, preps) ==
    LET g == isin(frame, "gender", genders)
        e == isin(frame, "parental level of education", edus)
        p == isin(frame, "test preparation course", preps)
    IN  BooleanIndex(frame, List([i \in 1..Len(frame.data) |-> g[i] /\ e[i] /\ p[i]]))

\* Percent without the guard on an empty selection
Percent_unguarded(count, total) == FMulInt(FDivInt(count, total), 100)

Percent(count, total) == IF total > 0 THEN FMulInt(FDivInt(count, total), 100) ELSE FZero

FailRows(frame) == BooleanIndex(frame, isin(frame, "pass_fail", {"Fail"}))

(* ------------------------------- inputs -------------------------------- *)
Genders == {"male", "female"}
Educations == {"high school", "associate degree", "bachelor", "master"}
Lunches == {"standard", "free/reduced"}
TestPreps == {"none", "completed"}
Scores == (FAIL_THRESHOLD - ScoreSpan)..(FAIL_THRESHOLD + ScoreSpan)

Student(g, e, l, p, m, r, w) ==
    ("gender" :> g) @@ ("parental level of education" :> e) @@ ("lunch" :> l)
    @@ ("test preparation course" :> p) @@ ("math score" :> m)
    @@ ("reading score" :> r) @@ ("writing score" :> w)

\* every student of the generator's categories with scores around the threshold
GridRows ==
    {Student(g, e, l, p, m, r, w) :
        g \in Genders, e \in Educations, l \in Lunches, p \in TestPreps,
        m \in Scores, r \in Scores, w \in Scores}

\* students for the longer files: two that have the same filter attributes and
\* tie on the minimum (in different subjects), one Pass, one lower minimum;
\* scores on both sides of the threshold and at the top of the range
SampleRows ==
    { Student("male", "high school", "standard", "none", 40, 41, 41),
      Student("male", "high school", "free/reduced", "none", 41, 40, 100),
      Student("female", "bachelor", "standard", "completed", 41, 41, 41),
      Student("female", "high school", "free/reduced", "none", 100, 41, 39) }

\* the contents DATA_FILE can have: a header alone, any one student of the
\* grid, or up to MaxLen of the sample students in any order, repeats allowed.
\* (The 100 rows generated when the file is missing are one more such table,
\* over the same categories, and go through the same Data Prep.)
DataFiles ==
    {<<>>} \cup {<<s>> : s \in GridRows}
    \cup UNION {[1..n -> SampleRows] : n \in 1..MaxLen}

(* -------------------------------- state -------------------------------- *)
VARIABLES data_file, df, gender_filter, edu_filter, prep_filter, filtered_df,
          pass_count, fail_count, total_students, pass_percent, fail_percent,
          avg_scores, heatmap_df, bar_df, at_risk, at_risk_table, csv

vars == <<data_file, df, gender_filter, edu_filter, prep_filter, filtered_df,
          pass_count, fail_count, total_students, pass_percent, fail_percent,
          avg_scores, heatmap_df, bar_df, at_risk, at_risk_table, csv>>

\* Tab 1 and Tab 2: the figures computed from filtered_df
Views(f) ==
    [pass_count |-> value_count(f, "pass_fail", "Pass"),
     fail_count |-> value_count(f, "pass_fail", "Fail"),
     total_students |-> Len(f.data),
     pass_percent |-> Percent(value_count(f, "pass_fail", "Pass"), Len(f.data)),
     fail_percent |-> Percent(value_count(f, "pass_fail", "Fail"), Len(f.data)),
     avg_scores |-> [c \in Range(ScoreColumns) |-> mean(f, c)],
     heatmap_df |-> round2(groupby_mean(f, "gender")),
     bar_df |-> groupby_mean(f, "parental level of education")]

\* the part of a run below the sidebar: filter, Tab 1, Tab 2, Tab 3
Render(d, genders, edus, preps) ==
    \E f \in {FilterRows(d, genders, edus, preps)} :
      \E v \in {Views(f)} :
        \E sorted \in sort_values(FailRows(f), "min score") :
            /\ gender_filter' = genders
            /\ edu_filter' = edus
            /\ prep_filter' = preps
            /\ filtered_df' = f
            /\ pass_count' = v.pass_count
            /\ fail_count' = v.fail_count
            /\ total_students' = v.total_students
            /\ pass_percent' = v.pass_percent
            /\ fail_percent' = v.fail_percent
            /\ avg_scores' = v.avg_scores
            /\ heatmap_df' = v.heatmap_df
            /\ bar_df' = v.bar_df
            /\ at_risk' = sorted
            /\ at_risk_table' = GetColumns(sorted, DisplayColumns)
            /\ csv' = to_csv(sorted)

\* first run of a session: every multiselect holds its default, all options
Init ==
    \E file \in DataFiles :
      \E d \in {DataPrep(read_csv(file))} :
        \E f \in {FilterRows(d, unique(d, "gender"),
                             unique(d, "parental level of education"),
                             unique(d, "test preparation course"))} :
          \E v \in {Views(f)} :
            \E sorted \in sort_values(FailRows(f), "min score") :
                /\ data_file = file
                /\ df = d
                /\ gender_filter = unique(d, "gender")
                /\ edu_filter = unique(d, "parental level of education")
                /\ prep_filter = unique(d, "test preparation course")
                /\ filtered_df = f
                /\ pass_count = v.pass_count
                /\ fail_count = v.fail_count
                /\ total_students = v.total_students
                /\ pass_percent = v.pass_percent
                /\ fail_percent = v.fail_percent
                /\ avg_scores = v.avg_scores
                /\ heatmap_df = v.heatmap_df
                /\ bar_df = v.bar_df
                /\ at_risk = sorted
                /\ at_risk_table = GetColumns(sorted, DisplayColumns)
                /\ csv = to_csv(sorted)

\* a rerun of the script with the widget values genders, edus, preps
Rerun(genders, edus, preps) ==
    \E d \in {DataPrep(read_csv(data_file))} :
        /\ data_file' = data_file
        /\ df' = d
        /\ Render(d, genders, edus, preps)

\* the user changes the Gender multiselect
SelectGender ==
    \E chosen \in SUBSET unique(df, "gender") :
        /\ chosen # gender_filter
        /\ Rerun(chosen, edu_filter, prep_filter)

\* the user changes the Parental Education multiselect
SelectEducation ==
    \E chosen \in SUBSET unique(df, "parental level of education") :
        /\ chosen # edu_filter
        /\ Rerun(gender_filter, chosen, prep_filter)

\* the user changes the Test Prep Course multiselect
SelectTestPrep ==
    \E chosen \in SUBSET unique(df, "test preparation course") :
        /\ chosen # prep_filter
        /\ Rerun(gender_filter, edu_filter, chosen)

\* the user presses the download button: the script reruns, widgets unchanged
DownloadReport == Rerun(gender_filter, edu_filter, prep_filter)

Next == SelectGender \/ SelectEducation \/ SelectTestPrep \/ DownloadReport

Spec == Init /\ [][Next]_vars

(* ------------------------------- claims -------------------------------- *)
ScoresOf(row) == {row["math score"], row["reading score"], row["writing score"]}

LeastScore(row) == CHOOSE x \in ScoresOf(row) : \A y \in ScoresOf(row) : x <= y

GreatestScore(row) == CHOOSE x \in ScoresOf(row) : \A y \in ScoresOf(row) : y <= x

Rows(frame) == 1..Len(frame.data)

Observed(col) == {data_file[i][col] : i \in 1..Len(data_file)}

FullSelection ==
    /\ gender_filter = Observed("gender")
    /\ edu_filter = Observed("parental level of education")
    /\ prep_filter = Observed("test preparation course")

Selected(row) ==
    /\ row["gender"] \in gender_filter
    /\ row["parental level of education"] \in edu_filter
    /\ row["test preparation course"] \in prep_filter

\* C1: every record is Fail iff the least of its three scores is <= 40 and
\* Pass iff it is > 40; a least score of 40 is Fail, of 41 is Pass.
PassFailByThreshold ==
    \A i \in Rows(df) :
        LET row == df.data[i]
            m == LeastScore(row)
        IN  /\ row["min score"] = m
            /\ row["pass_fail"] = "Fail" <=> m <= 40
            /\ row["pass_fail"] = "Pass" <=> m > 40
            /\ m = 40 => row["pass_fail"] = "Fail"
            /\ m = 41 => row["pass_fail"] = "Pass"

\* a data set holding a record at the threshold and one just above it
PassFailBoundaryReached ==
    \E i, j \in Rows(df) :
        /\ LeastScore(df.data[i]) = 40 /\ df.data[i]["pass_fail"] = "Fail"
        /\ LeastScore(df.data[j]) = 41 /\ df.data[j]["pass_fail"] = "Pass"

\* C2: the filtered rows are exactly the rows of df whose gender, parental
\* education and test-prep value are each in the matching selection; nothing
\* else decides membership and no row comes from outside df.
FilterKeepsExactlySelected ==
    LET kept == {i \in Rows(df) : Selected(df.data[i])}
    IN  /\ Len(filtered_df.data) = Cardinality(kept)
        /\ Range(filtered_df.index) = {df.index[i] : i \in kept}
        /\ \A k \in Rows(filtered_df) :
              \E i \in kept : /\ df.index[i] = filtered_df.index[k]
                              /\ df.data[i] = filtered_df.data[k]

\* a row is kept while another, with its gender and education selected, is
\* dropped by the test-prep selection alone
FilterDropsOnOneAttribute ==
    /\ Len(filtered_df.data) >= 1
    /\ \E i \in Rows(df) :
          /\ df.data[i]["gender"] \in gender_filter
          /\ df.data[i]["parental level of education"] \in edu_filter
          /\ df.data[i]["test preparation course"] \notin prep_filter

\* C3: the at-risk extract holds exactly the Fail rows of the filtered data,
\* each once, and is in non-decreasing order of the minimum score.
AtRiskExactlyFailSorted ==
    LET fails == {k \in Rows(filtered_df) : LeastScore(filtered_df.data[k]) <= 40}
    IN  /\ Len(at_risk.data) = Cardinality(fails)
        /\ Range(at_risk.index) = {filtered_df.index[k] : k \in fails}
        /\ \A a \in Rows(at_risk) :
              /\ at_risk.data[a]["pass_fail"] = "Fail"
              /\ \E k \in fails : /\ filtered_df.index[k] = at_risk.index[a]
                                  /\ filtered_df.data[k] = at_risk.data[a]
        /\ \A a \in 1..(Len(at_risk.data) - 1) :
              LeastScore(at_risk.data[a]) <= LeastScore(at_risk.data[a + 1])

\* a Pass row was left out and the sort moved a later, lower row ahead
AtRiskSortReordered ==
    /\ \E k \in Rows(filtered_df) : filtered_df.data[k]["pass_fail"] = "Pass"
    /\ \E a, b \in Rows(at_risk) :
          /\ a < b
          /\ at_risk.index[a] > at_risk.index[b]
          /\ LeastScore(at_risk.data[a]) < LeastScore(at_risk.data[b])

\* C4: at-risk rows with equal minimum score keep the relative order they
\* have in the loaded data.
AtRiskSortStable ==
    \A a, b \in Rows(at_risk) :
        (a < b /\ at_risk.data[a]["min score"] = at_risk.data[b]["min score"])
            => at_risk.index[a] < at_risk.index[b]

\* C5: the exported CSV is a header plus one line per at-risk row and its
\* columns are exactly the eight columns of the displayed at-risk table.
CsvHasDisplayedColumns ==
    /\ Len(csv.lines) = Len(at_risk.data)
    /\ Len(csv.header) = 8
    /\ Range(csv.header) = Range(at_risk_table.columns)

\* C6 as stated: the counts add up to the total, pass% + fail% is 100 when
\* the total is positive, and both are 0 when it is 0.
PercentagesSumTo100 ==
    /\ pass_count + fail_count = total_students
    /\ total_students > 0 => FAdd(pass_percent, fail_percent) = FromInt(100)
    /\ total_students = 0 => pass_percent = FZero /\ fail_percent = FZero

\* 100 - 2^-45 and 100 + 2^-45, two float64 steps either side of 100
Below100 == [kind |-> "num", exp |-> 6, man |-> <<4607, 8191, 8191, 8190>>]

Above100 == [kind |-> "num", exp |-> 6, man |-> <<4608, 0, 0, 2>>]

\* C6 amended: the counts add up to the total; when the total is positive the
\* float64 sum pass% + fail% is within 2^-45 of 100; when it is 0 both are 0.
PercentagesSumNear100 ==
    /\ pass_count + fail_count = total_students
    /\ pass_count = Cardinality({k \in Rows(filtered_df) :
                                   filtered_df.data[k]["pass_fail"] = "Pass"})
    /\ total_students = Len(filtered_df.data)
    /\ total_students > 0 =>
          /\ FLeq(Below100, FAdd(pass_percent, fail_percent))
          /\ FLeq(FAdd(pass_percent, fail_percent), Above100)
    /\ total_students = 0 => pass_percent = FZero /\ fail_percent = FZero

\* one Pass among three students: the two quotients are rounded and the sum
\* is not 100
PercentagesRounded ==
    /\ total_students = 3
    /\ pass_count = 1
    /\ FAdd(pass_percent, fail_percent) # FromInt(100)

\* C7: an empty selection for any one of the three attributes gives an empty
\* filtered data set, whatever the other two selections are.
EmptySelectionGivesEmpty ==
    (gender_filter = {} \/ edu_filter = {} \/ prep_filter = {})
        => Len(filtered_df.data) = 0

\* the Gender selection was emptied on a non-empty data set, the other two
\* selections still complete
OneSelectionEmptied ==
    /\ Len(df.data) >= 1
    /\ gender_filter = {}
    /\ edu_filter = Observed("parental level of education")
    /\ prep_filter = Observed("test preparation course")
    /\ Len(filtered_df.data) = 0

\* C8: on an empty filtered data set every figure is zero or empty: counts
\* and percentages 0, the subject averages not NaN, no group rows, an empty
\* at-risk extract.
EmptyViewDegrades ==
    Len(filtered_df.data) = 0 =>
        /\ pass_count = 0 /\ fail_count = 0 /\ total_students = 0
        /\ pass_percent = FZero /\ fail_percent = FZero
        /\ \A c \in Range(ScoreColumns) : avg_scores[c].kind # "nan"
        /\ DOMAIN heatmap_df = {}
        /\ DOMAIN bar_df = {}
        /\ Len(at_risk.data) = 0

\* C9: with every value observed in the data selected for all three
\* attributes the filtered data set is df itself, rows and order.
FullSelectionIsIdentity == FullSelection => filtered_df = df

\* the complete selection on a data set of several rows
FullSelectionOnSeveralRows ==
    /\ FullSelection
    /\ Len(df.data) >= 2
    /\ filtered_df.data = df.data

\* C10: in df and in the filtered data every row's raw scores are those of
\* the data file, its total is their sum, its minimum their least, and the
\* minimum <= average <= maximum.
DerivedConsistent ==
    /\ Len(df.data) = Len(data_file)
    /\ \A frame \in {df, filtered_df} :
          \A i \in Rows(frame) :
              LET row == frame.data[i]
                  raw == data_file[frame.index[i] + 1]
              IN  /\ \A c \in Range(RawColumns) : row[c] = raw[c]
                  /\ row["total score"] =
                        raw["math score"] + raw["reading score"] + raw["writing score"]
                  /\ row["min score"] = LeastScore(raw)
                  /\ 3 * LeastScore(raw) <= row["total score"]
                  /\ row["total score"] <= 3 * GreatestScore(raw)
                  /\ FLeq(FromInt(LeastScore(raw)), row["average score"])
                  /\ FLeq(row["average score"], FromInt(GreatestScore(raw)))

\* a selection was narrowed and some, not all, rows remain
NarrowedSelection ==
    /\ ~FullSelection
    /\ Len(filtered_df.data) >= 1
    /\ Len(filtered_df.data) < Len(df.data)
    /\ \E k \in Rows(filtered_df) :
          LeastScore(filtered_df.data[k]) < GreatestScore(filtered_df.data[k])
====
